---- MODULE Spec2Model ----
(***************************************************************************)
(* Model of the notebook PandasDFMerging.ipynb: two CSV sources are read,  *)
(* each is cleaned (date index, column labels, imputation of missing       *)
(* values), the two frames are merged on 'date' and the result is written  *)
(* to STR.csv.  A run executes the four code cells in order and stops at   *)
(* the first cell that raises.                                             *)
(*                                                                         *)
(* Numbers are exact rationals n/d (d > 0, lowest terms); a cell of a      *)
(* frame is a number, NaN, or a string left by read_csv in an object       *)
(* column.  CSV fields are text tokens.                                    *)
(***************************************************************************)
EXTENDS Integers, Sequences, FiniteSets, TLC

VARIABLES pc, err, srcSleep, srcTrRec, Sleep, TrRec, STR, csv

vars == <<pc, err, srcSleep, srcTrRec, Sleep, TrRec, STR, csv>>

(***************************** bounds ***************************************)
\* rows per source table when the date keys vary
MaxKeyRows == 2
\* rows per source table when the mean-imputed columns vary
MaxRows == 3
\* rows of the training table when exertion rating and stress score vary
MaxLookupRows == 1

(***************************** numbers **************************************)
Abs(i) == IF i < 0 THEN -i ELSE i

RECURSIVE GCD(_, _)
GCD(a, b) == IF b = 0 THEN a ELSE GCD(b, a % b)

NaN == [k |-> "nan", n |-> 0, d |-> 1, s |-> ""]

Num(n, d) ==
    LET g == GCD(Abs(n), d)
    IN  [k |-> "num", n |-> n \div g, d |-> d \div g, s |-> ""]

Str(t) == [k |-> "str", n |-> 0, d |-> 1, s |-> t]

IsNum(x) == x.k = "num"
\* Series.isnull(): NaN only; a string of an object column is not null
IsNull(x) == x.k = "nan"

Add(x, y) == Num(x.n * y.d + y.n * x.d, x.d * y.d)
DivInt(x, c) == Num(x.n, x.d * c)
Leq(x, y) == x.n * y.d <= y.n * x.d
Lt(x, y) == x.n * y.d < y.n * x.d

(************************ text of a CSV field *******************************)
\* The numeric literals that occur in the modelled sources, with their values.
NumericTokens ==
    {"-1", "0", "0.05", "0.1", "1", "2", "3", "3.05", "3.1", "4", "5", "5.05",
     "5.1", "6", "7", "8", "10", "21", "50"}

ParseNumber(t) ==
    CASE t = "-1"   -> Num(-1, 1)
      [] t = "0"    -> Num(0, 1)
      [] t = "0.05" -> Num(5, 100)
      [] t = "0.1"  -> Num(1, 10)
      [] t = "1"    -> Num(1, 1)
      [] t = "2"    -> Num(2, 1)
      [] t = "3"    -> Num(3, 1)
      [] t = "3.05" -> Num(305, 100)
      [] t = "3.1"  -> Num(31, 10)
      [] t = "4"    -> Num(4, 1)
      [] t = "5"    -> Num(5, 1)
      [] t = "5.05" -> Num(505, 100)
      [] t = "5.1"  -> Num(51, 10)
      [] t = "6"    -> Num(6, 1)
      [] t = "7"    -> Num(7, 1)
      [] t = "8"    -> Num(8, 1)
      [] t = "10"   -> Num(10, 1)
      [] t = "21"   -> Num(21, 1)
      [] t = "50"   -> Num(50, 1)
      [] OTHER      -> NaN

\* pd.read_csv type inference for one column: a column whose fields are all
\* numeric or empty is a float column (empty -> NaN); otherwise it is an
\* object column that keeps the text (empty -> NaN).
ReadCsvColumn(toks) ==
    IF \A i \in DOMAIN toks : toks[i] = "" \/ toks[i] \in NumericTokens
    THEN [i \in DOMAIN toks |-> ParseNumber(toks[i])]
    ELSE [i \in DOMAIN toks |-> IF toks[i] = "" THEN NaN ELSE Str(toks[i])]

\* coercion that turns unparseable text into 0 instead of a missing value
ToNumericZero(x) ==
    IF x.k = "str"
    THEN (IF x.s \in NumericTokens THEN ParseNumber(x.s) ELSE Num(0, 1))
    ELSE x

\* pd.to_numeric(x, errors='coerce') on one cell: text that is no number -> NaN
ToNumeric(x) ==
    IF x.k = "str" THEN ParseNumber(x.s) ELSE x

\* pd.to_datetime(x).dt.date on one field: the calendar day, time of day dropped
DateOf(raw) == raw.day


(***************************** columns **************************************)
\* the metric columns read from each source (the 'date' column is the key)
cols_sleep ==
    <<"Total Sleep Time", "Awake Time", "REM Sleep Time", "Light Sleep Time",
      "Deep Sleep Time", "Restless Sleep", "Sleep Efficiency", "Sleep Latency",
      "Average Resting Heart Rate", "Lowest Resting Heart Rate", "Average HRV",
      "Temperature Deviation", "Respiratory Rate">>

cols_trainrecov == <<"HRV4T_Recovery_Points", "trainingRPE", "trainingTSS", "alcohol">>

SleepColumns ==
    <<"TotalSleep", "Awake", "REM", "Light", "Deep", "Restless", "Efficiency",
      "Latency", "AvgRHR", "LowRHR", "AvgHRV", "TDiff", "RespR">>

TrRecColumns == <<"RecPts", "RPE", "TSS", "Beers">>

Range(q) == {q[i] : i \in DOMAIN q}
IndexOf(q, x) == CHOOSE i \in DOMAIN q : q[i] = x

(***************************** frames ***************************************)
\* A frame is a sequence of rows [date, m], m a function column -> cell.
ColumnOf(frame, c) == [i \in DOMAIN frame |-> frame[i].m[c]]

\* pd.read_csv(url, usecols=cols): one frame column per requested column
ReadCsv(src, cols) ==
    [i \in DOMAIN src |->
        [date |-> src[i].date,
         m    |-> [c \in Range(cols) |->
                     ReadCsvColumn([j \in DOMAIN src |-> src[j].f[c]])[i]]]]

\* pd.to_datetime raises on the first field it cannot parse
DatesParse(frame) == \A i \in DOMAIN frame : frame[i].date.ok

\* frame['date'] = pd.to_datetime(frame['date']).dt.date; frame.set_index('date').
\* set_index is called without verify_integrity, so equal dates are kept.
SetDateIndex(frame) ==
    [i \in DOMAIN frame |-> [date |-> DateOf(frame[i].date), m |-> frame[i].m]]

\* frame.columns = new: labels are assigned by position
Relabel(frame, old, new) ==
    [i \in DOMAIN frame |->
        [date |-> frame[i].date,
         m    |-> [c \in Range(new) |-> frame[i].m[old[IndexOf(new, c)]]]]]

SetColumn(frame, c, col) ==
    [i \in DOMAIN frame |->
        [date |-> frame[i].date, m |-> [frame[i].m EXCEPT ![c] = col[i]]]]

(***************************** imputation ***********************************)
RECURSIVE SumFrom(_, _)
SumFrom(col, i) ==
    IF i > Len(col) THEN Num(0, 1)
    ELSE IF IsNum(col[i]) THEN Add(col[i], SumFrom(col, i + 1))
    ELSE SumFrom(col, i + 1)

Present(col) == {i \in DOMAIN col : IsNum(col[i])}

\* Series.mean() with skipna: the total over all rows instead of the present ones
MeanOverAllRows(col) ==
    IF Present(col) = {} THEN NaN ELSE DivInt(SumFrom(col, 1), Len(col))

\* Series.mean(): mean of the non-missing values, NaN when there is none
Mean(col) ==
    IF Present(col) = {} THEN NaN ELSE DivInt(SumFrom(col, 1), Cardinality(Present(col)))

\* Series.fillna(v, limit=1): only the first missing cell is filled
FillNaLimit1(col, v) ==
    [i \in DOMAIN col |->
        IF IsNull(col[i]) /\ (\A j \in 1..(i - 1) : ~IsNull(col[j])) THEN v ELSE col[i]]

\* Series.fillna(v): every missing cell becomes v (v = NaN changes nothing)
FillNa(col, v) == [i \in DOMAIN col |-> IF IsNull(col[i]) THEN v ELSE col[i]]

IsObjectColumn(col) == \E i \in DOMAIN col : col[i].k = "str"

\* DataFrame.mean(): one mean per numeric column; an object column holding
\* text has no mean and is left out of the result
FrameMean(frame, cols) ==
    [c \in {x \in Range(cols) : ~IsObjectColumn(ColumnOf(frame, x))} |->
        Mean(ColumnOf(frame, c))]

\* DataFrame.fillna(means): column-wise fill, only for the columns in means
FrameFillNa(frame, means) ==
    [i \in DOMAIN frame |->
        [date |-> frame[i].date,
         m    |-> [c \in DOMAIN frame[i].m |->
                     IF c \in DOMAIN means
                     THEN FillNa(ColumnOf(frame, c), means[c])[i]
                     ELSE frame[i].m[c]]]]

\* Series.between(lo, hi) with both bounds excluded
BetweenExclusive(x, lo, hi) == IsNum(x) /\ Lt(lo, x) /\ Lt(x, hi)

\* Series.between(lo, hi): both bounds inclusive
Between(x, lo, hi) == IsNum(x) /\ Leq(lo, x) /\ Leq(x, hi)

\* conditions = [RPE==0, RPE.between(0.1,3), RPE.between(3.1,5), RPE.between(5.1,7), RPE>7]
conditions(rpe) ==
    << IsNum(rpe) /\ rpe = Num(0, 1),
       Between(rpe, Num(1, 10), Num(3, 1)),
       Between(rpe, Num(31, 10), Num(5, 1)),
       Between(rpe, Num(51, 10), Num(7, 1)),
       IsNum(rpe) /\ Lt(Num(7, 1), rpe) >>

values == <<Num(0, 1), Num(41, 1), Num(53, 1), Num(77, 1), Num(85, 1)>>

\* np.select with the default left missing
SelectDefaultNaN(conds, vals) ==
    IF \E i \in DOMAIN conds : conds[i]
    THEN vals[CHOOSE i \in DOMAIN conds : conds[i] /\ \A j \in 1..(i - 1) : ~conds[j]]
    ELSE NaN

\* np.select(conditions, values): value of the first true condition, default 0
Select(conds, vals) ==
    IF \E i \in DOMAIN conds : conds[i]
    THEN vals[CHOOSE i \in DOMAIN conds : conds[i] /\ \A j \in 1..(i - 1) : ~conds[j]]
    ELSE Num(0, 1)

\* np.where with the two value arguments exchanged
WhereSwapped(c, a, b) == IF c THEN b ELSE a

\* np.where(c, a, b) on one row
Where(c, a, b) == IF c THEN a ELSE b

(***************************** cleaners *************************************)
\* cell 2 after the date index is set: labels, then Sleep.fillna(Sleep.mean())
CleanSleepFrame(frame) ==
    LET labelled == Relabel(frame, cols_sleep, SleepColumns)
    IN  FrameFillNa(labelled, FrameMean(labelled, SleepColumns))

\* cell 3 after the date index is set
CleanTrRecFrame(frame) ==
    LET labelled == Relabel(frame, cols_trainrecov, TrRecColumns)
        rec0 == [i \in DOMAIN labelled |-> ToNumeric(labelled[i].m["RecPts"])]
        rec  == FillNa(rec0, Mean(rec0))
        rpe0 == [i \in DOMAIN labelled |-> ToNumeric(labelled[i].m["RPE"])]
        rpe  == FillNa(rpe0, Num(0, 1))
        tss0 == [i \in DOMAIN labelled |-> ToNumeric(labelled[i].m["TSS"])]
        tss  == [i \in DOMAIN labelled |->
                    Where(IsNull(tss0[i]), Select(conditions(rpe[i]), values), tss0[i])]
    IN  SetColumn(SetColumn(SetColumn(labelled, "RecPts", rec), "RPE", rpe), "TSS", tss)

(***************************** join *****************************************)
JoinRow(l, r) == [date |-> l.date, m |-> l.m @@ r.m]

RowsMatching(right, d) == SelectSeq(right, LAMBDA r : r.date = d)

RECURSIVE MergeFrom(_, _, _)
MergeFrom(left, right, i) ==
    IF i > Len(left) THEN <<>>
    ELSE LET hits == RowsMatching(right, left[i].date)
         IN  [j \in 1..Len(hits) |-> JoinRow(left[i], hits[j])]
             \o MergeFrom(left, right, i + 1)

\* pd.merge(left, right, on='date'): how='inner', left order, one row per
\* pair of rows with equal dates
Merge(left, right) == MergeFrom(left, right, 1)

(***************************** the run ***************************************)
\* cell 1: the two pd.read_csv calls, in order.  A source that cannot be read
\* or that lacks a requested column raises and ends the run.
Load ==
    /\ pc = "load"
    /\ \E o1, o2 \in {"ok", "SourceUnavailable", "SchemaMismatch"} :
         IF o1 # "ok"
         THEN /\ pc' = "failed" /\ err' = o1
              /\ UNCHANGED <<Sleep, TrRec>>
         ELSE IF o2 # "ok"
         THEN /\ pc' = "failed" /\ err' = o2
              /\ Sleep' = ReadCsv(srcSleep, cols_sleep)
              /\ UNCHANGED TrRec
         ELSE /\ pc' = "cleanSleep" /\ err' = "none"
              /\ Sleep' = ReadCsv(srcSleep, cols_sleep)
              /\ TrRec' = ReadCsv(srcTrRec, cols_trainrecov)
    /\ UNCHANGED <<srcSleep, srcTrRec, STR, csv>>

\* cell 2.  Sleep.mean() over an object column either leaves the column out
\* or raises TypeError, depending on the pandas release.
CleanSleep ==
    /\ pc = "cleanSleep"
    /\ IF ~DatesParse(Sleep)
       THEN /\ pc' = "failed" /\ err' = "DateParseError"
            /\ UNCHANGED Sleep
       ELSE LET labelled == Relabel(SetDateIndex(Sleep), cols_sleep, SleepColumns)
                object == \E c \in Range(SleepColumns) : IsObjectColumn(ColumnOf(labelled, c))
            IN  \E raises \in (IF object THEN BOOLEAN ELSE {FALSE}) :
                  IF raises
                  THEN /\ pc' = "failed" /\ err' = "TypeError"
                       /\ Sleep' = labelled
                  ELSE /\ pc' = "cleanTrRec" /\ err' = "none"
                       /\ Sleep' = CleanSleepFrame(SetDateIndex(Sleep))
    /\ UNCHANGED <<srcSleep, srcTrRec, TrRec, STR, csv>>

\* cell 3
CleanTrRec ==
    /\ pc = "cleanTrRec"
    /\ IF ~DatesParse(TrRec)
       THEN /\ pc' = "failed" /\ err' = "DateParseError"
            /\ UNCHANGED TrRec
       ELSE /\ pc' = "merge" /\ err' = "none"
            /\ TrRec' = CleanTrRecFrame(SetDateIndex(TrRec))
    /\ UNCHANGED <<srcSleep, srcTrRec, Sleep, STR, csv>>

\* cell 4: STR = pd.merge(Sleep, TrRec, on='date'); STR.to_csv('STR.csv')
Join ==
    /\ pc = "merge"
    /\ STR' = Merge(Sleep, TrRec)
    /\ \E writable \in BOOLEAN :
         IF writable
         THEN /\ pc' = "done" /\ err' = "none"
              /\ csv' = [exists |-> TRUE, rows |-> STR']
         ELSE /\ pc' = "failed" /\ err' = "IOError"
              /\ UNCHANGED csv
    /\ UNCHANGED <<srcSleep, srcTrRec, Sleep, TrRec>>

Next == Load \/ CleanSleep \/ CleanTrRec \/ Join

(***************************** sources **************************************)
SeqsUpTo(n, S) == UNION {[1..k -> S] : k \in 0..n}

Day(d) == [ok |-> TRUE, day |-> d, hour |-> 0]

\* the calendar days the varying date keys are drawn from
KeyDays == {1, 2}

\* date fields: a day with or without a time of day, or text that is no date
RawDates ==
    {[ok |-> TRUE, day |-> d, hour |-> h] : d \in KeyDays, h \in {0, 8}}
        \cup {[ok |-> FALSE, day |-> 0, hour |-> 0]}

RawDays == {Day(d) : d \in KeyDays} \cup {[ok |-> FALSE, day |-> 0, hour |-> 0]}

SleepFields(deep, rem) ==
    [c \in Range(cols_sleep) |->
        IF c = "Deep Sleep Time" THEN deep
        ELSE IF c = "REM Sleep Time" THEN rem ELSE "7"]

TrRecFields(rec, rpe, tss, beers) ==
    [c \in Range(cols_trainrecov) |->
        CASE c = "HRV4T_Recovery_Points" -> rec
          [] c = "trainingRPE" -> rpe
          [] c = "trainingTSS" -> tss
          [] OTHER -> beers]

RpeTokens ==
    {"", "abc", "-1", "0", "0.05", "0.1", "2", "3", "3.05", "3.1", "4", "5",
     "5.05", "5.1", "6", "7", "8"}

\* the date keys vary: repeated days, days of one table only, unparseable dates
KeySources ==
    /\ srcSleep \in SeqsUpTo(MaxKeyRows,
            {[date |-> d, f |-> SleepFields("", "3")] : d \in RawDates})
    /\ srcTrRec \in SeqsUpTo(MaxKeyRows,
            {[date |-> d, f |-> TrRecFields("10", "4", "", "1")] : d \in RawDays})

\* the sleep metrics vary
SleepSources ==
    /\ \E k \in 0..MaxRows :
         \E deep \in [1..k -> {"", "2", "4", "abc"}], rem \in [1..k -> {"", "3"}] :
            srcSleep = [i \in 1..k |-> [date |-> Day(i), f |-> SleepFields(deep[i], rem[i])]]
    /\ srcTrRec = <<[date |-> Day(1), f |-> TrRecFields("10", "4", "50", "1")]>>

\* the recovery score and the alcohol count vary
RecoverySources ==
    /\ srcSleep = <<[date |-> Day(1), f |-> SleepFields("2", "3")]>>
    /\ \E k \in 0..MaxRows :
         \E rec \in [1..k -> {"", "abc", "10", "21"}], beers \in [1..k -> {"", "1"}] :
            srcTrRec = [i \in 1..k |->
                          [date |-> Day(i), f |-> TrRecFields(rec[i], "4", "50", beers[i])]]

\* the exertion rating and the training stress score vary
LookupSources ==
    /\ srcSleep = <<[date |-> Day(1), f |-> SleepFields("2", "3")]>>
    /\ \E k \in 1..MaxLookupRows :
         \E rpe \in [1..k -> RpeTokens], tss \in [1..k -> {"", "abc", "50"}] :
            srcTrRec = [i \in 1..k |->
                          [date |-> Day(i), f |-> TrRecFields("10", rpe[i], tss[i], "1")]]

\* three sleep days and three training days, two of them shared
OverlapSources ==
    /\ \E a, c \in {"2", "4", "7", "10"} :
         srcSleep = << [date |-> Day(1), f |-> SleepFields(a, "3")],
                       [date |-> Day(2), f |-> SleepFields("", "3")],
                       [date |-> Day(3), f |-> SleepFields(c, "3")] >>
    /\ \E r2 \in {"0", "6"}, t2 \in {"", "50"}, c4 \in {"", "abc"},
          r4 \in {"0", "6", "abc"}, t4 \in {"", "50", "abc"} :
         srcTrRec = << [date |-> Day(2), f |-> TrRecFields("10", r2, t2, "1")],
                       [date |-> Day(3), f |-> TrRecFields("21", "4", "", "")],
                       [date |-> Day(4), f |-> TrRecFields(c4, r4, t4, "1")] >>

Init ==
    /\ pc = "load"
    /\ err = "none"
    /\ Sleep = <<>>
    /\ TrRec = <<>>
    /\ STR = <<>>
    /\ csv = [exists |-> FALSE, rows |-> <<>>]
    /\ \/ RecoverySources
       \/ KeySources
       \/ SleepSources
       \/ LookupSources
       \/ OverlapSources

Spec == Init /\ [][Next]_vars

(***************************** properties ***********************************)
SleepCleaned == pc \in {"cleanTrRec", "merge", "done"}
TrRecCleaned == pc \in {"merge", "done"}

SourceDays(src) == {DateOf(src[i].date) : i \in DOMAIN src}
HasDuplicateDate(src) ==
    \E i, j \in DOMAIN src : i # j /\ DateOf(src[i].date) = DateOf(src[j].date)
HasBadDate(src) == \E i \in DOMAIN src : ~src[i].date.ok

Field(src, i, c) == src[i].f[c]
Numeric(t) == t \in NumericTokens

\* C1: the join is a strict inner join: a combined row's date is a date of
\* both sources, every date of both sources is the date of exactly one
\* combined row, and so the combined rows are as many as the common dates.
C1_StrictInnerJoin ==
    pc = "done" =>
        LET common == SourceDays(srcSleep) \cap SourceDays(srcTrRec)
        IN  /\ \A i \in DOMAIN STR : STR[i].date \in common
            /\ \A d \in common : Cardinality({i \in DOMAIN STR : STR[i].date = d}) = 1
            /\ Len(STR) = Cardinality(common)

\* C2: a source table with two rows of the same date ends the run at the
\* set-key step of its cleaner: the run never gets past that cleaner, the
\* join is not computed and no file is written.
C2_DuplicateDateFails ==
    /\ HasDuplicateDate(srcSleep) => ~SleepCleaned
    /\ HasDuplicateDate(srcTrRec) => ~TrRecCleaned
    /\ (HasDuplicateDate(srcSleep) \/ HasDuplicateDate(srcTrRec)) =>
            (STR = <<>> /\ ~csv.exists)

\* C7: the run is all-or-nothing for the output file: the file exists only
\* when every stage has completed and then holds the whole combined table; a
\* failed run leaves no file; and a source with an unparseable date or with a
\* repeated date makes the run fail, so no file is written for it.
C7_AllOrNothing ==
    /\ csv.exists => (pc = "done" /\ csv.rows = STR /\ STR = Merge(Sleep, TrRec))
    /\ pc = "failed" => ~csv.exists
    /\ (HasBadDate(srcSleep) \/ HasBadDate(srcTrRec)) => ~csv.exists
    /\ (HasDuplicateDate(srcSleep) \/ HasDuplicateDate(srcTrRec)) => ~csv.exists

(* source fields of the training table, by cleaned column *)
RecTok(i) == Field(srcTrRec, i, "HRV4T_Recovery_Points")
RpeTok(i) == Field(srcTrRec, i, "trainingRPE")
TssTok(i) == Field(srcTrRec, i, "trainingTSS")
BeersTok(i) == Field(srcTrRec, i, "alcohol")

\* the exertion rating of a row in hundredths, 0 when the field is no number
RpeHundredths(i) ==
    IF Numeric(RpeTok(i))
    THEN (ParseNumber(RpeTok(i)).n * 100) \div ParseNumber(RpeTok(i)).d
    ELSE 0

\* the lookup table as the specification states it, on hundredths; -1: no range
LookupScore(h) ==
    CASE h = 0 -> 0
      [] h >= 10 /\ h <= 300 -> 41
      [] h >= 310 /\ h <= 500 -> 53
      [] h >= 510 /\ h <= 700 -> 77
      [] h > 700 -> 85
      [] OTHER -> -1

EntirelyMissing(src, c) == Len(src) > 0 /\ \A i \in DOMAIN src : Field(src, i, c) = ""
NoNull(frame) == \A i \in DOMAIN frame : \A c \in DOMAIN frame[i].m : ~IsNull(frame[i].m[c])

\* C3 as stated: when no source column is entirely missing, no column of
\* either cleaned table (alcohol count included) holds a missing value.
C3_NoMissingAnyColumn ==
    /\ (TrRecCleaned /\ \A c \in Range(cols_sleep) : ~EntirelyMissing(srcSleep, c))
            => NoNull(Sleep)
    /\ (TrRecCleaned /\ \A c \in Range(cols_trainrecov) : ~EntirelyMissing(srcTrRec, c))
            => NoNull(TrRec)

\* C3 (amended): after cleaning, a sleep metric column whose source fields
\* are all numeric or empty, with at least one numeric, holds no missing
\* value; the recovery score holds none when at least one of its source fields
\* is a number; exertion rating and training stress score never hold one; the
\* alcohol count is kept as read, its empty fields still missing.
C3_NoMissingImputedColumns ==
    /\ SleepCleaned =>
         \A k \in DOMAIN cols_sleep :
            ( /\ \A i \in DOMAIN srcSleep :
                    Field(srcSleep, i, cols_sleep[k]) = "" \/ Numeric(Field(srcSleep, i, cols_sleep[k]))
              /\ \E i \in DOMAIN srcSleep : Numeric(Field(srcSleep, i, cols_sleep[k])) )
            => \A i \in DOMAIN Sleep : IsNum(Sleep[i].m[SleepColumns[k]])
    /\ TrRecCleaned =>
         /\ (\E i \in DOMAIN srcTrRec : Numeric(RecTok(i)))
                => \A i \in DOMAIN TrRec : IsNum(TrRec[i].m["RecPts"])
         /\ \A i \in DOMAIN TrRec : IsNum(TrRec[i].m["RPE"]) /\ IsNum(TrRec[i].m["TSS"])
         /\ \A i \in DOMAIN TrRec : BeersTok(i) = "" => IsNull(TrRec[i].m["Beers"])

C3_Witness ==
    /\ pc = "merge"
    /\ \E i \in DOMAIN srcSleep :
         Field(srcSleep, i, "Deep Sleep Time") = "" /\ IsNum(Sleep[i].m["Deep"])
    /\ \E i \in DOMAIN srcTrRec :
         /\ RecTok(i) = "" /\ IsNum(TrRec[i].m["RecPts"])
         /\ ~Numeric(RpeTok(i)) /\ ~Numeric(TssTok(i)) /\ IsNum(TrRec[i].m["TSS"])

\* C4: a row whose training stress score is missing after coercion gets the
\* score of the range its exertion rating falls in, 0 / 0.1..3 / 3.1..5 /
\* 5.1..7 / above 7 giving 0 / 41 / 53 / 77 / 85 with the bounds included; the
\* ratings 0, 2, 4, 6, 8 give 0, 41, 53, 77, 85.
C4_LookupTable ==
    TrRecCleaned =>
        \A i \in DOMAIN TrRec :
            ~Numeric(TssTok(i)) =>
                /\ LookupScore(RpeHundredths(i)) # -1
                        => TrRec[i].m["TSS"] = Num(LookupScore(RpeHundredths(i)), 1)
                /\ RpeTok(i) = "0" => TrRec[i].m["TSS"] = Num(0, 1)
                /\ RpeTok(i) = "2" => TrRec[i].m["TSS"] = Num(41, 1)
                /\ RpeTok(i) = "4" => TrRec[i].m["TSS"] = Num(53, 1)
                /\ RpeTok(i) = "6" => TrRec[i].m["TSS"] = Num(77, 1)
                /\ RpeTok(i) = "8" => TrRec[i].m["TSS"] = Num(85, 1)

C4_Witness ==
    /\ TrRecCleaned
    /\ \E i \in DOMAIN TrRec :
         TssTok(i) = "" /\ RpeTok(i) = "3.1" /\ TrRec[i].m["TSS"] = Num(53, 1)

\* C8: a row whose training stress score is a number in the source keeps
\* exactly that number, whatever its exertion rating.
C8_PresentScoreKept ==
    TrRecCleaned =>
        \A i \in DOMAIN TrRec :
            Numeric(TssTok(i)) => TrRec[i].m["TSS"] = ParseNumber(TssTok(i))

C8_Witness ==
    /\ TrRecCleaned
    /\ \E i \in DOMAIN TrRec :
         TssTok(i) = "50" /\ RpeTok(i) = "8" /\ TrRec[i].m["TSS"] = Num(50, 1)

\* C10: a row whose training stress score is missing and whose exertion rating
\* is in no range (negative, or strictly between 0 and 0.1, 3 and 3.1, 5 and
\* 5.1) gets 0; every row that was missing ends with one of 0, 41, 53, 77, 85.
C10_DefaultZero ==
    TrRecCleaned =>
        \A i \in DOMAIN TrRec :
            ~Numeric(TssTok(i)) =>
                LET h == RpeHundredths(i)
                IN  /\ (h < 0 \/ (0 < h /\ h < 10) \/ (300 < h /\ h < 310) \/ (500 < h /\ h < 510))
                            => TrRec[i].m["TSS"] = Num(0, 1)
                    /\ TrRec[i].m["TSS"] \in {Num(v, 1) : v \in {0, 41, 53, 77, 85}}

C10_Witness ==
    /\ TrRecCleaned
    /\ \E i \in DOMAIN TrRec :
         TssTok(i) = "" /\ RpeTok(i) = "3.05" /\ TrRec[i].m["TSS"] = Num(0, 1)

DeepTok(i) == Field(srcSleep, i, "Deep Sleep Time")

\* Sleep rows for three days with only the second Deep value missing, training
\* rows for the last two of them and a fourth day, the shared third day with
\* no training stress score and exertion rating 4
OverlapScenario ==
    /\ Len(srcSleep) = 3 /\ Len(srcTrRec) = 3
    /\ ~HasBadDate(srcSleep) /\ ~HasBadDate(srcTrRec)
    /\ Cardinality(SourceDays(srcSleep) \cup SourceDays(srcTrRec)) = 4
    /\ DateOf(srcSleep[2].date) = DateOf(srcTrRec[1].date)
    /\ DateOf(srcSleep[3].date) = DateOf(srcTrRec[2].date)
    /\ Numeric(DeepTok(1)) /\ DeepTok(2) = "" /\ Numeric(DeepTok(3))
    /\ ~Numeric(TssTok(2)) /\ RpeTok(2) = "4"

\* C5: in that scenario the finished run's combined table (and the file)
\* holds exactly the two shared days, in order; the first has for Deep the
\* mean of the two Deep values present, the second has training stress score 53.
C5_EndToEnd ==
    (OverlapScenario /\ pc = "done") =>
        /\ Len(STR) = 2
        /\ STR[1].date = DateOf(srcSleep[2].date)
        /\ STR[2].date = DateOf(srcSleep[3].date)
        /\ STR[1].m["Deep"] = DivInt(Add(ParseNumber(DeepTok(1)), ParseNumber(DeepTok(3))), 2)
        /\ STR[2].m["TSS"] = Num(53, 1)
        /\ csv.rows = STR

C5_Witness ==
    /\ OverlapScenario /\ pc = "done"
    /\ DeepTok(1) = "2" /\ DeepTok(3) = "7"
    /\ STR[1].m["Deep"] = Num(9, 2)

\* C6: mean imputation is idempotent: on the cleaned sleep table, computing
\* the column means again and filling again changes no cell, and the same
\* holds for the cleaned recovery score column (a column without any number
\* included: it stays missing both times).
C6_MeanFillIdempotent ==
    /\ SleepCleaned => FrameFillNa(Sleep, FrameMean(Sleep, SleepColumns)) = Sleep
    /\ TrRecCleaned =>
         LET rec == ColumnOf(TrRec, "RecPts")
         IN  FillNa(rec, Mean(rec)) = rec

C6_Witness ==
    /\ TrRecCleaned
    /\ Len(Sleep) = 3
    /\ DeepTok(1) = "" /\ DeepTok(2) = "" /\ DeepTok(3) = "4"
    /\ Sleep[1].m["Deep"] = Num(4, 1)
    /\ \A i \in DOMAIN Sleep : IsNull(Sleep[i].m["REM"])

(* the training sources with every field that is no number left empty *)
Blanked(src) ==
    [i \in DOMAIN src |->
        [date |-> src[i].date,
         f    |-> [c \in DOMAIN src[i].f |->
                     IF c # "alcohol" /\ ~Numeric(src[i].f[c]) THEN "" ELSE src[i].f[c]]]]

IsText(t) == t # "" /\ ~Numeric(t)

RecoveryMean ==
    LET parsed == [i \in DOMAIN srcTrRec |-> ParseNumber(RecTok(i))]
        count == Cardinality({i \in DOMAIN srcTrRec : Numeric(RecTok(i))})
    IN  IF count = 0 THEN NaN ELSE DivInt(SumFrom(parsed, 1), count)

CoercedLikeMissing ==
    /\ \A i \in DOMAIN TrRec :
         /\ IsText(RecTok(i)) => TrRec[i].m["RecPts"] = RecoveryMean
         /\ IsText(RpeTok(i)) => TrRec[i].m["RPE"] = Num(0, 1)
         /\ (~Numeric(RpeTok(i)) /\ ~Numeric(TssTok(i))) => TrRec[i].m["TSS"] = Num(0, 1)
    /\ \A c \in {"RecPts", "RPE", "TSS"} :
         ColumnOf(TrRec, c) =
            ColumnOf(CleanTrRecFrame(SetDateIndex(ReadCsv(Blanked(srcTrRec), cols_trainrecov))), c)

\* C9: a recovery score, exertion rating or training stress score that is no
\* number never ends the run in the training cleaner (with parseable dates
\* the cleaner completes) and is then treated as an empty field: the recovery
\* score becomes the column mean, the exertion rating 0, and a row without a
\* numeric exertion rating and without a numeric stress score ends with
\* stress score 0.
C9_CoercionNeverFatal ==
    /\ [][(pc = "cleanTrRec" /\ ~HasBadDate(srcTrRec)) => pc' = "merge"]_vars
    /\ [](TrRecCleaned => CoercedLikeMissing)

C9_Witness ==
    /\ pc = "merge"
    /\ \E i \in DOMAIN TrRec :
         /\ IsText(RecTok(i)) /\ IsText(RpeTok(i)) /\ IsText(TssTok(i))
         /\ TrRec[i].m["RecPts"] = Num(31, 2)
         /\ TrRec[i].m["RPE"] = Num(0, 1)
         /\ TrRec[i].m["TSS"] = Num(0, 1)

====
